---- MODULE Spec2Model ----
(***************************************************************************)
(* Model of handler.py: the serverless media-encoding worker.  One         *)
(* invocation of handler(job) is a linear sequence of steps over a local   *)
(* filesystem (scratch directories under /tmp), an object-storage bucket   *)
(* and two external tool invocations.                                      *)
(*                                                                         *)
(* Strings are sequences of tokens.  A token is one character, or one of   *)
(* the fixed literals the code pastes into a name ("/tmp/", "_input",      *)
(* "_processed.mp4", "thumb_", ".jpg", ...).  Path and key construction    *)
(* is concatenation, as in the f-strings and os.path.join of the source.   *)
(***************************************************************************)
EXTENDS Integers, Sequences, FiniteSets, TLC

(***************************************************************************)
(* Bounds of the model.                                                    *)
(***************************************************************************)
\* the thumbnail tool writes at most this many files in one run
MaxThumbs == 2
\* number of distinct failure messages an external collaborator may raise
MaxMsgs == 2
\* the longest video of the thumbnailer's own specification, in sampled frames
MaxLongThumbs == 1000

\* the invocations of handler that are modelled: the framework may run two
\* at the same time
Slots == {1, 2}

\* values uuid.uuid4() may return
JobIds == {"u1", "u2"}

\* the source_video_key values jobs are drawn from:
\*   "v/c.m"  a key in a folder, with an extension
\*   ".c"     a key whose basename starts with a dot
\*   ""       the empty key
\*   "c"      a bare key with no extension
SourceKeys ==
    { <<"v", "/", "c", ".", "m">>,
      <<".", "c">>,
      <<>>,
      <<"c">> }

\* the jobs the hosting framework may deliver:
\*   shape "no_input"  a job object without an 'input' field
\*   shape "no_key"    input present, without 'source_video_key'
\*   shape "key"       input with source_video_key = key
Jobs ==
    { [shape |-> "no_input", key |-> <<>>],
      [shape |-> "no_key", key |-> <<>>] }
    \cup { [shape |-> "key", key |-> k] : k \in SourceKeys }

(***************************************************************************)
(* String functions of the Python library, as the code uses them.          *)
(***************************************************************************)
\* character code of the first character of a token (for str comparison)
Ord(t) ==
    CASE t = "." -> 46
      [] t = ".jpg" -> 46
      [] t = "/" -> 47
      [] t = "/tmp/" -> 47
      [] t = "0" -> 48
      [] t = "1" -> 49
      [] t = "2" -> 50
      [] t = "3" -> 51
      [] t = "4" -> 52
      [] t = "5" -> 53
      [] t = "6" -> 54
      [] t = "7" -> 55
      [] t = "8" -> 56
      [] t = "9" -> 57
      [] t = "_input" -> 95
      [] t = "_output" -> 95
      [] t = "_processed.mp4" -> 95
      [] t = "c" -> 99
      [] t = "m" -> 109
      [] t = "processed/" -> 112
      [] t = "thumb_" -> 116
      [] t = "thumbnails/" -> 116
      [] t = "u1" -> 117
      [] t = "u2" -> 117
      [] t = "v" -> 118
      [] OTHER -> 0

\* positions of the token t in s
Positions(s, t) == { i \in 1..Len(s) : s[i] = t }

Max(S) == CHOOSE x \in S : \A y \in S : y <= x

\* os.path.basename: what follows the last "/"
Basename(p) ==
    IF Positions(p, "/") = {} THEN p
    ELSE SubSeq(p, Max(Positions(p, "/")) + 1, Len(p))

\* os.path.splitext(b)[0]: b up to its last ".", leading dots not counting
SplitextRoot(b) ==
    LET dots == Positions(b, ".")
        last == Max(dots)
    IN  IF dots = {} THEN b
        ELSE IF \E i \in 1..(last - 1) : b[i] # "." THEN SubSeq(b, 1, last - 1)
        ELSE b

\* the decimal digits of n, most significant first
RECURSIVE Digits(_)
Digits(n) ==
    LET d == <<"0", "1", "2", "3", "4", "5", "6", "7", "8", "9">>[(n % 10) + 1]
    IN  IF n < 10 THEN <<d>> ELSE Append(Digits(n \div 10), d)

\* printf %03d
Pad3(n) ==
    LET ds == Digits(n)
    IN  IF Len(ds) = 1 THEN <<"0", "0">> \o ds
        ELSE IF Len(ds) = 2 THEN <<"0">> \o ds
        ELSE ds

\* Python's < on str: the first differing character decides, a proper prefix is less
RECURSIVE StrLess(_, _)
StrLess(a, b) ==
    IF b = <<>> THEN FALSE
    ELSE IF a = <<>> THEN TRUE
    ELSE IF Ord(Head(a)) # Ord(Head(b)) THEN Ord(Head(a)) < Ord(Head(b))
    ELSE StrLess(Tail(a), Tail(b))

\* sorted(S) for a set of strings
RECURSIVE SortedSeq(_)
SortedSeq(S) ==
    IF S = {} THEN <<>>
    ELSE LET m == CHOOSE x \in S : \A y \in S \ {x} : StrLess(x, y)
         IN  <<m>> \o SortedSeq(S \ {m})

(***************************************************************************)
(* Names, paths and keys the handler derives.                              *)
(***************************************************************************)
\* f"/tmp/{job_id}_input" and f"/tmp/{job_id}_output"
LocalInputDir(id) == <<"/tmp/", id, "_input">>
\* an output directory that does not carry the job identifier
LocalOutputDirShared(id) == <<"/tmp/", "job", "_output">>
LocalOutputDir(id) == <<"/tmp/", id, "_output">>

\* os.path.join(dir, name)
PathJoin(dir, name) == dir \o <<"/">> \o name

LocalInputPath(id, key) == PathJoin(LocalInputDir(id), Basename(key))

TranscodedFilename(key) == SplitextRoot(Basename(key)) \o <<"_processed.mp4">>

LocalTranscodedPath(id, key) == PathJoin(LocalOutputDir(id), TranscodedFilename(key))

\* the file the thumbnail tool writes for frame n under the pattern thumb_%03d.jpg
ThumbFilename(n) == <<"thumb_">> \o Pad3(n) \o <<".jpg">>

\* f"processed/{job_id}"
S3OutputPrefix(id) == <<"processed/", id>>

S3TranscodedKey(id, key) == S3OutputPrefix(id) \o <<"/">> \o TranscodedFilename(key)

\* every thumbnail stored under one fixed name
S3ThumbKeyFixedName(id, thumb_path) ==
    S3OutputPrefix(id) \o <<"/", "thumbnails/", "thumb_", ".jpg">>

S3ThumbKey(id, thumb_path) ==
    S3OutputPrefix(id) \o <<"/", "thumbnails/">> \o Basename(thumb_path)

(***************************************************************************)
(* The local filesystem: glob and the files of a directory.                *)
(***************************************************************************)
\* f is an entry directly inside directory d
InDir(f, d) ==
    /\ Len(f) > Len(d)
    /\ SubSeq(f, 1, Len(d)) = d
    /\ f[Len(d) + 1] = "/"
    /\ Positions(SubSeq(f, Len(d) + 2, Len(f)), "/") = {}

\* a name glob's * does not match: one that starts with a dot
Hidden(name) == name # <<>> /\ name[1] = "."

\* glob(f"{d}/*") over the set of files fset
GlobAll(fset, d) == { f \in fset : InDir(f, d) /\ ~Hidden(Basename(f)) }

\* glob(os.path.join(d, 'thumb_*.jpg')) over the set of files fset
GlobThumbs(fset, d) ==
    { f \in fset : /\ InDir(f, d)
                   /\ Len(Basename(f)) >= 2
                   /\ Basename(f)[1] = "thumb_"
                   /\ Basename(f)[Len(Basename(f))] = ".jpg" }

\* glob(os.path.join(d, 'thumb_*.jpg')) as the list glob returns: the files the
\* thumbnail tool wrote into d under thumb_%03d.jpg, in directory order
ThumbListing(fset, d) ==
    SelectSeq([i \in 1..Cardinality(fset) |-> PathJoin(d, ThumbFilename(i))],
              LAMBDA p : p \in fset)

\* sorted(glob(os.path.join(d, 'thumb_*.jpg')))
SortedThumbs(fset, d) == SortSeq(ThumbListing(fset, d), StrLess)

(***************************************************************************)
(* Values.                                                                 *)
(***************************************************************************)
\* "no value yet" for a job, a response or an exception
None == [none |-> TRUE]

\* the messages of the two failures the handler words itself
MsgMisconfigured ==
    [step |-> "Server is misconfigured. Missing R2 environment variables.", n |-> 0]
MsgMissingKey == [step |-> "Missing 'source_video_key' in job input.", n |-> 0]

\* str(e) of a failure raised by a collaborator in the given step
FailureMsg(step, n) == [step |-> step, n |-> n]

\* an error record that also carries a status field
ErrorResponseWithStatus(msg) == [status |-> "error", error |-> msg]

\* {"error": ...}
ErrorResponse(msg) == [error |-> msg]

\* the dictionary analyze_thumbnails_ai returns
AiPlaceholder ==
    [status |-> "pending", message |-> "AI analysis will be implemented in the future."]

\* the success dictionary
SuccessResponse(id, transcoded_key, thumb_keys, ai) ==
    [status |-> "success",
     transcoded_video_key |-> transcoded_key,
     thumbnail_keys |-> thumb_keys,
     ai_analysis |-> ai,
     public_base_url |-> <<"PUBLIC_URL", "/">> \o S3OutputPrefix(id)]

\* the key read with a default instead of a checked lookup
HasSourceVideoKeyUnchecked(jb) == TRUE

\* job_input['source_video_key'] does not raise KeyError
HasSourceVideoKey(jb) == jb.shape = "key"

\* job['input'] does not raise KeyError
HasInput(jb) == jb.shape # "no_input"

(***************************************************************************)
(* State.                                                                  *)
(***************************************************************************)
VARIABLES
    configured,         \* S3_ENDPOINT_URL is set and the s3 client exists
    dirs,               \* the directories that exist under /tmp
    files,              \* the files that exist under /tmp
    bucket,             \* the keys stored in the bucket by upload_file
    pc,                 \* pc[j]: where invocation j of handler stands
    job,                \* job[j]: the job it was called with
    job_id,             \* job_id[j]: its uuid ("" before line 115)
    thumbnail_paths,    \* thumbnail_paths[j]
    ai_results,         \* ai_results[j]
    s3_thumbnail_keys,  \* s3_thumbnail_keys[j]
    pending,            \* pending[j]: the value of the return statement reached
    response,           \* response[j]: what handler returned to the framework
    raised,             \* raised[j]: the exception that left handler
    failure,            \* failure[j]: message of the failure caught at line 173
    calls               \* calls[j]: the calls to the OS, the storage and the tools

vars ==
    <<configured, dirs, files, bucket, pc, job, job_id, thumbnail_paths,
      ai_results, s3_thumbnail_keys, pending, response, raised, failure, calls>>

locals == <<job, job_id, thumbnail_paths, ai_results, s3_thumbnail_keys>>

Call(op, arg, ok) == [op |-> op, arg |-> arg, ok |-> ok]

Log(j, entries) == calls' = [calls EXCEPT ![j] = @ \o entries]

Goto(j, where) == pc' = [pc EXCEPT ![j] = where]

Init ==
    /\ configured \in BOOLEAN
    /\ dirs = {}
    /\ files = {}
    /\ bucket = {}
    /\ pc = [j \in Slots |-> "idle"]
    /\ job = [j \in Slots |-> None]
    /\ job_id = [j \in Slots |-> ""]
    /\ thumbnail_paths = [j \in Slots |-> <<>>]
    /\ ai_results = [j \in Slots |-> None]
    /\ s3_thumbnail_keys = [j \in Slots |-> <<>>]
    /\ pending = [j \in Slots |-> None]
    /\ response = [j \in Slots |-> None]
    /\ raised = [j \in Slots |-> None]
    /\ failure = [j \in Slots |-> None]
    /\ calls = [j \in Slots |-> <<>>]

(***************************************************************************)
(* handler(job), step by step.                                             *)
(***************************************************************************)
\* the framework calls handler with a job, one of jobs
InvokeFrom(j, jobs) ==
    /\ pc[j] = "idle"
    /\ \E jb \in jobs : job' = [job EXCEPT ![j] = jb]
    /\ Goto(j, "check_config")
    /\ UNCHANGED <<configured, dirs, files, bucket, job_id, thumbnail_paths,
                   ai_results, s3_thumbnail_keys, pending, response, raised,
                   failure, calls>>

\* the job input read before the configuration is checked
CheckConfigAfterInput(j) ==
    /\ pc[j] = "check_config"
    /\ IF ~HasInput(job[j])
       THEN /\ raised' = [raised EXCEPT ![j] = [type |-> "KeyError", at |-> "job['input']"]]
            /\ Goto(j, "raised")
            /\ UNCHANGED response
       ELSE IF configured
       THEN /\ Goto(j, "read_input")
            /\ UNCHANGED <<response, raised>>
       ELSE /\ response' = [response EXCEPT ![j] = [error |-> MsgMisconfigured]]
            /\ Goto(j, "returned")
            /\ UNCHANGED raised
    /\ UNCHANGED <<configured, dirs, files, bucket, locals, pending, failure, calls>>

Invoke(j) == InvokeFrom(j, Jobs)

\* lines 102-103
CheckConfig(j) ==
    /\ pc[j] = "check_config"
    /\ IF configured
       THEN /\ Goto(j, "read_input")
            /\ UNCHANGED response
       ELSE /\ response' = [response EXCEPT ![j] = ErrorResponse(MsgMisconfigured)]
            /\ Goto(j, "returned")
    /\ UNCHANGED <<configured, dirs, files, bucket, locals, pending, raised,
                   failure, calls>>

\* line 105: outside any try
ReadInput(j) ==
    /\ pc[j] = "read_input"
    /\ IF HasInput(job[j])
       THEN /\ Goto(j, "get_key")
            /\ UNCHANGED raised
       ELSE /\ raised' = [raised EXCEPT ![j] = [type |-> "KeyError", at |-> "job['input']"]]
            /\ Goto(j, "raised")
    /\ UNCHANGED <<configured, dirs, files, bucket, locals, pending, response,
                   failure, calls>>

\* lines 109-112
GetKey(j) ==
    /\ pc[j] = "get_key"
    /\ IF HasSourceVideoKey(job[j])
       THEN /\ Goto(j, "makedirs")
            /\ UNCHANGED response
       ELSE /\ response' = [response EXCEPT ![j] = ErrorResponse(MsgMissingKey)]
            /\ Goto(j, "returned")
    /\ UNCHANGED <<configured, dirs, files, bucket, locals, pending, raised,
                   failure, calls>>

\* lines 115-120: a fresh uuid, then the two os.makedirs, outside any try;
\* made = how many of the two succeed before one raises OSError
MakeDirs(j) ==
    /\ pc[j] = "makedirs"
    /\ \E id \in JobIds \ { job_id[k] : k \in Slots }, made \in 0..2 :
        LET in == LocalInputDir(id)
            out == LocalOutputDir(id)
        IN  /\ job_id' = [job_id EXCEPT ![j] = id]
            /\ dirs' = dirs \cup (IF made >= 1 THEN {in} ELSE {})
                            \cup (IF made = 2 THEN {out} ELSE {})
            /\ Log(j, <<Call("makedirs", in, made >= 1)>>
                      \o (IF made >= 1 THEN <<Call("makedirs", out, made = 2)>>
                          ELSE <<>>))
            /\ IF made = 2
               THEN /\ Goto(j, "download")
                    /\ UNCHANGED raised
               ELSE /\ raised' = [raised EXCEPT
                                    ![j] = [type |-> "OSError", at |-> "os.makedirs"]]
                    /\ Goto(j, "raised")
    /\ UNCHANGED <<configured, files, bucket, job, thumbnail_paths, ai_results,
                   s3_thumbnail_keys, pending, response, failure>>

\* an except clause that runs the failed step again
FailRetry(j, step, n) ==
    /\ UNCHANGED <<failure, pending>>
    /\ Goto(j, pc[j])

\* an except clause that adds the keys uploaded so far to the error record
FailReportingUploads(j, step, n) ==
    /\ failure' = [failure EXCEPT ![j] = FailureMsg(step, n)]
    /\ pending' = [pending EXCEPT
                     ![j] = [error |-> FailureMsg(step, n),
                             transcoded_video_key |-> S3TranscodedKey(job_id[j], job[j].key),
                             thumbnail_keys |-> s3_thumbnail_keys[j]]]
    /\ Goto(j, "cleanup_input")

\* lines 173-175: the failure of a step of the try body is caught and turned
\* into the return value
Fail(j, step, n) ==
    /\ failure' = [failure EXCEPT ![j] = FailureMsg(step, n)]
    /\ pending' = [pending EXCEPT ![j] = ErrorResponse(FailureMsg(step, n))]
    /\ Goto(j, "cleanup_input")

\* lines 128-130: s3.download_file writes local_input_path or raises.  A path
\* that ends in "/" (empty basename) names the directory: no file can be
\* written there, so that download cannot succeed
Download(j) ==
    /\ pc[j] = "download"
    /\ LET key == job[j].key
           path == LocalInputPath(job_id[j], key)
       IN  \E ok \in BOOLEAN, n \in 1..MaxMsgs :
            /\ ok => (Basename(key) # <<>> /\ n = 1)
            /\ Log(j, <<Call("download", key, ok)>>)
            /\ IF ok
               THEN /\ files' = files \cup {path}
                    /\ Goto(j, "transcode")
                    /\ UNCHANGED <<pending, failure>>
               ELSE /\ UNCHANGED files
                    /\ Fail(j, "download", n)
    /\ UNCHANGED <<configured, dirs, bucket, locals, response, raised>>

\* line 135 and lines 39-55: ffmpeg writes output_path; with a non-zero exit
\* subprocess.run raises, and the output file may have been written in part
TranscodeToMp4(j) ==
    /\ pc[j] = "transcode"
    /\ LET key == job[j].key
           in == LocalInputPath(job_id[j], key)
           out == LocalTranscodedPath(job_id[j], key)
       IN  \E ok \in BOOLEAN, n \in 1..MaxMsgs, written \in BOOLEAN :
            /\ ok => (written /\ n = 1)
            /\ Log(j, <<Call("transcode", in, ok)>>)
            /\ files' = files \cup (IF written THEN {out} ELSE {})
            /\ IF ok
               THEN /\ Goto(j, "thumbnails")
                    /\ UNCHANGED <<pending, failure>>
               ELSE Fail(j, "transcode", n)
    /\ UNCHANGED <<configured, dirs, bucket, locals, response, raised>>

\* line 138 and lines 58-76: ffmpeg writes thumb_001.jpg, thumb_002.jpg, ...
\* into output_dir; on success the sorted glob is returned
GenerateThumbnailsN(j, counts) ==
    /\ pc[j] = "thumbnails"
    /\ LET key == job[j].key
           in == LocalTranscodedPath(job_id[j], key)
           out == LocalOutputDir(job_id[j])
       IN  \E ok \in BOOLEAN, n \in 1..MaxMsgs, count \in counts :
            /\ ok => n = 1
            /\ Log(j, <<Call("thumbnails", in, ok)>>)
            /\ files' = files \cup { PathJoin(out, ThumbFilename(i)) : i \in 1..count }
            /\ IF ok
               THEN /\ thumbnail_paths' =
                         [thumbnail_paths EXCEPT ![j] = SortedThumbs(files', out)]
                    /\ Goto(j, "analyze")
                    /\ UNCHANGED <<pending, failure>>
               ELSE /\ UNCHANGED thumbnail_paths
                    /\ Fail(j, "thumbnails", n)
    /\ UNCHANGED <<configured, dirs, bucket, job, job_id, ai_results,
                   s3_thumbnail_keys, response, raised>>

\* the thumbnail tool on the videos of the main specification
GenerateThumbnails(j) == GenerateThumbnailsN(j, 0..MaxThumbs)

\* line 141 and lines 79-95
AnalyzeThumbnailsAi(j) ==
    /\ pc[j] = "analyze"
    /\ ai_results' = [ai_results EXCEPT ![j] = AiPlaceholder]
    /\ Log(j, <<Call("analyze", <<>>, TRUE)>>)
    /\ Goto(j, "upload_video")
    /\ UNCHANGED <<configured, dirs, files, bucket, job, job_id, thumbnail_paths,
                   s3_thumbnail_keys, pending, response, raised, failure>>

\* lines 144-152: upload of the transcoded video
UploadVideo(j) ==
    /\ pc[j] = "upload_video"
    /\ LET k == S3TranscodedKey(job_id[j], job[j].key)
       IN  \E ok \in BOOLEAN, n \in 1..MaxMsgs :
            /\ ok => n = 1
            /\ Log(j, <<Call("upload", k, ok)>>)
            /\ IF ok
               THEN /\ bucket' = bucket \cup {k}
                    /\ s3_thumbnail_keys' = [s3_thumbnail_keys EXCEPT ![j] = <<>>]
                    /\ Goto(j, "upload_thumbs")
                    /\ UNCHANGED <<pending, failure>>
               ELSE /\ UNCHANGED <<bucket, s3_thumbnail_keys>>
                    /\ Fail(j, "upload", n)
    /\ UNCHANGED <<configured, dirs, files, job, job_id, thumbnail_paths,
                   ai_results, response, raised>>

\* the loop putting each new key at the front of the list
UploadThumbnailPrepend(j) ==
    /\ pc[j] = "upload_thumbs"
    /\ Len(s3_thumbnail_keys[j]) < Len(thumbnail_paths[j])
    /\ LET thumb_path == thumbnail_paths[j][Len(s3_thumbnail_keys[j]) + 1]
           k == S3ThumbKey(job_id[j], thumb_path)
       IN  \E ok \in BOOLEAN, n \in 1..MaxMsgs :
            /\ ok => n = 1
            /\ Log(j, <<Call("upload", k, ok)>>)
            /\ IF ok
               THEN /\ bucket' = bucket \cup {k}
                    /\ s3_thumbnail_keys' = [s3_thumbnail_keys EXCEPT ![j] = <<k>> \o @]
                    /\ Goto(j, "upload_thumbs")
                    /\ UNCHANGED <<pending, failure>>
               ELSE /\ UNCHANGED <<bucket, s3_thumbnail_keys>>
                    /\ Fail(j, "upload", n)
    /\ UNCHANGED <<configured, dirs, files, job, job_id, thumbnail_paths,
                   ai_results, response, raised>>

\* lines 153-158: one turn of the loop over thumbnail_paths
UploadThumbnail(j) ==
    /\ pc[j] = "upload_thumbs"
    /\ Len(s3_thumbnail_keys[j]) < Len(thumbnail_paths[j])
    /\ LET thumb_path == thumbnail_paths[j][Len(s3_thumbnail_keys[j]) + 1]
           k == S3ThumbKey(job_id[j], thumb_path)
       IN  \E ok \in BOOLEAN, n \in 1..MaxMsgs :
            /\ ok => n = 1
            /\ Log(j, <<Call("upload", k, ok)>>)
            /\ IF ok
               THEN /\ bucket' = bucket \cup {k}
                    /\ s3_thumbnail_keys' = [s3_thumbnail_keys EXCEPT ![j] = Append(@, k)]
                    /\ Goto(j, "upload_thumbs")
                    /\ UNCHANGED <<pending, failure>>
               ELSE /\ UNCHANGED <<bucket, s3_thumbnail_keys>>
                    /\ Fail(j, "upload", n)
    /\ UNCHANGED <<configured, dirs, files, job, job_id, thumbnail_paths,
                   ai_results, response, raised>>

\* a return that leaves the function without running the cleanup
ReturnSuccessWithoutCleanup(j) ==
    /\ pc[j] = "upload_thumbs"
    /\ Len(s3_thumbnail_keys[j]) = Len(thumbnail_paths[j])
    /\ pending' = [pending EXCEPT
                     ![j] = SuccessResponse(job_id[j],
                                            S3TranscodedKey(job_id[j], job[j].key),
                                            s3_thumbnail_keys[j], ai_results[j])]
    /\ Goto(j, "return")
    /\ UNCHANGED <<configured, dirs, files, bucket, locals, response, raised,
                   failure, calls>>

\* lines 160-171: the loop is over, the return statement of the try body
ReturnSuccess(j) ==
    /\ pc[j] = "upload_thumbs"
    /\ Len(s3_thumbnail_keys[j]) = Len(thumbnail_paths[j])
    /\ pending' = [pending EXCEPT
                     ![j] = SuccessResponse(job_id[j],
                                            S3TranscodedKey(job_id[j], job[j].key),
                                            s3_thumbnail_keys[j], ai_results[j])]
    /\ Goto(j, "cleanup_input")
    /\ UNCHANGED <<configured, dirs, files, bucket, locals, response, raised,
                   failure, calls>>

\* the directory the cleanup loop of lines 181-185 is at
CleanupDirAt(j) ==
    IF pc[j] = "cleanup_input" THEN LocalInputDir(job_id[j])
    ELSE LocalOutputDir(job_id[j])

\* lines 181-185, one turn of the loop: if the directory exists, os.remove of
\* every file glob lists, then os.rmdir, which raises OSError when the
\* directory is not empty; the exception leaves the finally block and handler
CleanupDir(j) ==
    /\ pc[j] \in {"cleanup_input", "cleanup_output"}
    /\ LET d == CleanupDirAt(j)
           listed == GlobAll(files, d)
           left == { f \in files \ listed : InDir(f, d) }
           after == IF pc[j] = "cleanup_input" THEN "cleanup_output" ELSE "return"
       IN  IF d \notin dirs
           THEN /\ Goto(j, after)
                /\ UNCHANGED <<dirs, files, raised, calls>>
           ELSE /\ files' = files \ listed
                /\ Log(j, [i \in 1..Cardinality(listed) |->
                             Call("remove", SortedSeq(listed)[i], TRUE)]
                          \o <<Call("rmdir", d, left = {})>>)
                /\ IF left = {}
                   THEN /\ dirs' = dirs \ {d}
                        /\ Goto(j, after)
                        /\ UNCHANGED raised
                   ELSE /\ raised' = [raised EXCEPT
                                        ![j] = [type |-> "OSError", at |-> "os.rmdir"]]
                        /\ Goto(j, "raised")
                        /\ UNCHANGED dirs
    /\ UNCHANGED <<configured, bucket, locals, pending, response, failure>>

\* the finally block is over: handler returns the pending value
Return(j) ==
    /\ pc[j] = "return"
    /\ response' = [response EXCEPT ![j] = pending[j]]
    /\ Goto(j, "returned")
    /\ UNCHANGED <<configured, dirs, files, bucket, locals, pending, raised,
                   failure, calls>>

\* one step of invocation j, once it is called
Steps(j) ==
    \/ CheckConfig(j)
    \/ ReadInput(j)
    \/ GetKey(j)
    \/ MakeDirs(j)
    \/ Download(j)
    \/ TranscodeToMp4(j)
    \/ GenerateThumbnails(j)
    \/ AnalyzeThumbnailsAi(j)
    \/ UploadVideo(j)
    \/ UploadThumbnail(j)
    \/ ReturnSuccess(j)
    \/ CleanupDir(j)
    \/ Return(j)

\* one step of invocation j
Handler(j) == Invoke(j) \/ Steps(j)

\* the worker handles one job
Next == Handler(1)

Spec == Init /\ [][Next]_vars

(***************************************************************************)
(* The thumbnailer on long videos: the state after a successful download   *)
(* and transcode, then generate_thumbnails on a video of up to             *)
(* MaxLongThumbs sampled frames.                                           *)
(***************************************************************************)
LongCounts ==
    {0, 1, 2, 9, 10, 11, 99, 100, 101, MaxLongThumbs - 1, MaxLongThumbs}

InitThumbs ==
    \E k \in { x \in SourceKeys : Basename(x) # <<>> }, id \in JobIds :
        /\ configured = TRUE
        /\ dirs = {LocalInputDir(id), LocalOutputDir(id)}
        /\ files = {LocalInputPath(id, k), LocalTranscodedPath(id, k)}
        /\ bucket = {}
        /\ pc = [j \in Slots |-> IF j = 1 THEN "thumbnails" ELSE "idle"]
        /\ job = [j \in Slots |-> IF j = 1 THEN [shape |-> "key", key |-> k] ELSE None]
        /\ job_id = [j \in Slots |-> IF j = 1 THEN id ELSE ""]
        /\ thumbnail_paths = [j \in Slots |-> <<>>]
        /\ ai_results = [j \in Slots |-> None]
        /\ s3_thumbnail_keys = [j \in Slots |-> <<>>]
        /\ pending = [j \in Slots |-> None]
        /\ response = [j \in Slots |-> None]
        /\ raised = [j \in Slots |-> None]
        /\ failure = [j \in Slots |-> None]
        /\ calls = [j \in Slots |->
                      IF j = 1
                      THEN <<Call("makedirs", LocalInputDir(id), TRUE),
                             Call("makedirs", LocalOutputDir(id), TRUE),
                             Call("download", k, TRUE),
                             Call("transcode", LocalInputPath(id, k), TRUE)>>
                      ELSE <<>>]

GenerateThumbnailsLong(j) == GenerateThumbnailsN(j, LongCounts)

NextThumbs == GenerateThumbnailsLong(1)

SpecThumbs == InitThumbs /\ [][NextThumbs]_vars

(***************************************************************************)
(* Two invocations of handler running at the same time.                    *)
(***************************************************************************)
\* the jobs of the two invocations: a key in a folder and a key whose
\* basename starts with a dot; both invocations may get the same key
ConcurrentJobs ==
    { [shape |-> "key", key |-> k] : k \in { <<"v", "/", "c", ".", "m">>, <<".", "c">> } }

InitConcurrent == Init /\ configured

InvokeConcurrent(j) == InvokeFrom(j, ConcurrentJobs)

NextConcurrent == \E j \in Slots : InvokeConcurrent(j) \/ Steps(j)

SpecConcurrent == InitConcurrent /\ [][NextConcurrent]_vars

(***************************************************************************)
(* A worker whose scratch resources disappear under it: when the cleanup   *)
(* of lines 177-186 is about to look at a directory, something outside     *)
(* handler has removed a scratch directory with its content, or one file.  *)
(***************************************************************************)
ExternalRemoval(j) ==
    /\ pc[j] \in {"cleanup_input", "cleanup_output"}
    /\ \E d \in {LocalInputDir(job_id[j]), LocalOutputDir(job_id[j])} \cap dirs :
          \/ /\ dirs' = dirs \ {d}
             /\ files' = { f \in files : ~InDir(f, d) }
             /\ Log(j, <<Call("gone", d, TRUE)>>)
          \/ \E f \in { x \in files : InDir(x, d) } :
                /\ files' = files \ {f}
                /\ Log(j, <<Call("gone", f, TRUE)>>)
                /\ UNCHANGED dirs
    /\ UNCHANGED <<configured, bucket, pc, locals, pending, response, raised, failure>>

NextGone == Next \/ ExternalRemoval(1)

SpecGone == Init /\ [][NextGone]_vars

(***************************************************************************)
(* Vocabulary of the properties.                                           *)
(***************************************************************************)
\* handler is over: it returned a value or an exception left it
Finished(j) == pc[j] \in {"returned", "raised"}

\* the calls of invocation j to operation op
CallsOf(j, op) == { i \in 1..Len(calls[j]) : calls[j][i].op = op }

\* both os.makedirs of lines 119-120 succeeded
ScratchCreated(j) ==
    /\ Cardinality(CallsOf(j, "makedirs")) = 2
    /\ \A i \in CallsOf(j, "makedirs") : calls[j][i].ok

\* a scratch directory of invocation j, or a file inside one, exists
ScratchLeft(j) ==
    LET ds == {LocalInputDir(job_id[j]), LocalOutputDir(job_id[j])}
    IN  \/ ds \cap dirs # {}
        \/ \E f \in files, d \in ds : InDir(f, d)

\* an operation of the cleanup step failed
CleanupFailed(j) ==
    \E i \in CallsOf(j, "remove") \cup CallsOf(j, "rmdir") : ~calls[j][i].ok

\* the keys invocation j uploaded successfully
Uploaded(j) == { calls[j][i].arg : i \in { u \in CallsOf(j, "upload") : calls[j][u].ok } }

\* the two shapes of a response
IsSuccessShape(r) ==
    /\ DOMAIN r = {"status", "transcoded_video_key", "thumbnail_keys", "ai_analysis",
                   "public_base_url"}
    /\ r.status = "success"
IsErrorShape(r) == DOMAIN r = {"error"}

\* the object-storage keys a response names
ReportedKeys(r) ==
    (IF "transcoded_video_key" \in DOMAIN r THEN {r.transcoded_video_key} ELSE {})
    \cup (IF "thumbnail_keys" \in DOMAIN r
          THEN { r.thumbnail_keys[i] : i \in 1..Len(r.thumbnail_keys) }
          ELSE {})

\* a step of invocation j failed: the configuration check, the input check, or
\* a call of the job body
StepFailed(j) ==
    \/ pc[j] # "idle" /\ ~configured
    \/ pc[j] # "idle" /\ ~HasSourceVideoKey(job[j])
    \/ failure[j] # None

\* the step whose failure was caught, "" if none
FailedStep(j) == IF failure[j] = None THEN "" ELSE failure[j].step

(***************************************************************************)
(* C1.  Once handler has finished an invocation that created its two       *)
(* scratch directories, neither directory nor any file inside exists,      *)
(* whatever source_video_key is and whatever download, transcode,          *)
(* thumbnailing and upload did.                                            *)
(***************************************************************************)
C1_ScratchRemovedWhenFinished ==
    \A j \in Slots : (Finished(j) /\ ScratchCreated(j)) => ~ScratchLeft(j)

(***************************************************************************)
(* C2.  Every invocation of handler ends by returning a response: no       *)
(* exception leaves handler.                                               *)
(***************************************************************************)
C2_NoUnhandledException ==
    \A j \in Slots : pc[j] # "raised" /\ raised[j] = None

(***************************************************************************)
(* C3.  When the job body has set the pending response (the error record   *)
(* of a caught failure E, or the success record) and an operation of the   *)
(* cleanup step fails, handler still returns that pending response.        *)
(***************************************************************************)
C3_CleanupFailureKeepsResponse ==
    \A j \in Slots :
        (Finished(j) /\ pending[j] # None /\ CleanupFailed(j))
            => (pc[j] = "returned" /\ response[j] = pending[j])

(***************************************************************************)
(* C4.  Every response handler returns is either the success record with   *)
(* all five fields and no error field, or the error record with only       *)
(* error; if any step failed the response returned is the error record.    *)
(***************************************************************************)
C4_ResponseShape ==
    \A j \in Slots :
        pc[j] = "returned" =>
            /\ IsSuccessShape(response[j]) \/ IsErrorShape(response[j])
            /\ ~(IsSuccessShape(response[j]) /\ IsErrorShape(response[j]))
            /\ StepFailed(j) => IsErrorShape(response[j])
            /\ IsSuccessShape(response[j]) =>
                   \A i \in 1..Len(calls[j]) :
                       calls[j][i].op \in {"download", "transcode", "thumbnails",
                                           "analyze", "upload"} => calls[j][i].ok

\* an error response returned after an upload of the same job had succeeded
C4_Witness ==
    \E j \in Slots :
        /\ pc[j] = "returned"
        /\ IsErrorShape(response[j])
        /\ Uploaded(j) # {}

(***************************************************************************)
(* C5.  With storage configured, a job whose input has no source_video_key *)
(* returns {error: "Missing 'source_video_key' in job input."}; no scratch *)
(* directory is created, no download or upload is attempted and no tool is *)
(* run in that invocation.                                                 *)
(***************************************************************************)
C5_MissingKeyFailsFast ==
    \A j \in Slots :
        (configured /\ pc[j] # "idle" /\ job[j].shape = "no_key") =>
            /\ calls[j] = <<>>
            /\ job_id[j] = ""
            /\ ~ScratchLeft(j)
            /\ pc[j] \in {"check_config", "read_input", "get_key", "returned"}
            /\ pc[j] = "returned" => response[j] = [error |-> MsgMissingKey]

C5_Witness ==
    \E j \in Slots :
        /\ configured
        /\ pc[j] = "returned"
        /\ job[j].shape = "no_key"

(***************************************************************************)
(* C6.  A job whose source_video_key is present but empty gets an          *)
(* immediate error response: no scratch directory is created and no        *)
(* download is attempted.                                                  *)
(***************************************************************************)
C6_EmptyKeyRejected ==
    \A j \in Slots :
        (pc[j] # "idle" /\ job[j].shape = "key" /\ job[j].key = <<>>) =>
            /\ CallsOf(j, "makedirs") = {}
            /\ CallsOf(j, "download") = {}

(***************************************************************************)
(* C7.  When the storage configuration is missing, every invocation,       *)
(* whatever the job (valid, without source_video_key, or without input),   *)
(* returns the misconfiguration error, and makes no call to the            *)
(* filesystem, the storage or a tool.                                      *)
(***************************************************************************)
C7_MisconfiguredFailsEveryJob ==
    ~configured =>
        /\ dirs = {} /\ files = {} /\ bucket = {}
        /\ \A j \in Slots :
            /\ calls[j] = <<>>
            /\ raised[j] = None
            /\ pc[j] \in {"idle", "check_config", "returned"}
            /\ pc[j] = "returned" => response[j] = [error |-> MsgMisconfigured]

\* a job without 'input' answered with the misconfiguration error
C7_Witness ==
    \E j \in Slots :
        /\ ~configured
        /\ pc[j] = "returned"
        /\ job[j].shape = "no_input"

(***************************************************************************)
(* C8.  If the download, the transcode or the thumbnail invocation fails,  *)
(* the response is {error: message of that failure}, no upload call is     *)
(* made, no later stage is run, and the scratch directories are removed.   *)
(***************************************************************************)
C8_StageFailureAbortsAndCleans ==
    \A j \in Slots :
        FailedStep(j) \in {"download", "transcode", "thumbnails"} =>
            /\ CallsOf(j, "upload") = {}
            /\ CallsOf(j, "analyze") = {}
            /\ \A i \in 1..Len(calls[j]) :
                   ~calls[j][i].ok /\ calls[j][i].op = FailedStep(j) =>
                       \A k \in (i + 1)..Len(calls[j]) :
                           calls[j][k].op \in {"remove", "rmdir"}
            /\ Finished(j) =>
                   /\ pc[j] = "returned"
                   /\ response[j] = [error |-> failure[j]]
                   /\ ~ScratchLeft(j)

(***************************************************************************)
(* C9.  If an upload fails, no later upload of that job is attempted, the  *)
(* uploads that already succeeded stay in the bucket, and the response is  *)
(* the error record with that failure's message and no key list.           *)
(***************************************************************************)
C9_UploadFailureAborts ==
    \A j \in Slots :
        FailedStep(j) = "upload" =>
            /\ \A i \in CallsOf(j, "upload") :
                   ~calls[j][i].ok => \A k \in CallsOf(j, "upload") : k <= i
            /\ Uploaded(j) \subseteq bucket
            /\ Finished(j) =>
                   /\ pc[j] = "returned"
                   /\ response[j] = [error |-> failure[j]]
                   /\ ReportedKeys(response[j]) = {}

(***************************************************************************)
(* C10.  When an upload fails after an earlier upload of the same job      *)
(* succeeded, the response handler returns names the artifacts already     *)
(* uploaded.                                                               *)
(***************************************************************************)
C10_PartialUploadsReported ==
    \A j \in Slots :
        (pc[j] = "returned" /\ FailedStep(j) = "upload" /\ Uploaded(j) # {})
            => Uploaded(j) \subseteq ReportedKeys(response[j])

(***************************************************************************)
(* C10, amended.  When an upload fails after an earlier upload of the same *)
(* job succeeded, the response handler returns is the error record whose   *)
(* only field is the failure's message: it names none of the artifacts     *)
(* already uploaded, which stay in the bucket.                              *)
(***************************************************************************)
C10_PartialUploadsNotReported ==
    \A j \in Slots :
        (pc[j] = "returned" /\ FailedStep(j) = "upload" /\ Uploaded(j) # {}) =>
            /\ IsErrorShape(response[j])
            /\ response[j].error = failure[j]
            /\ ReportedKeys(response[j]) = {}
            /\ Uploaded(j) \subseteq bucket

\* returned after the upload of a thumbnail failed, the video being uploaded
C10_Witness ==
    \E j \in Slots :
        /\ pc[j] = "returned"
        /\ FailedStep(j) = "upload"
        /\ Cardinality(Uploaded(j)) >= 2

(***************************************************************************)
(* C11.  When download and transcode succeed and the thumbnailer succeeds  *)
(* with zero thumbnail files, the job still succeeds: the analysis stage   *)
(* is run, exactly one upload is made (the transcoded video) and handler   *)
(* returns the success record with thumbnail_keys = [].                    *)
(***************************************************************************)
ZeroThumbnails(j) ==
    /\ \E i \in CallsOf(j, "thumbnails") : calls[j][i].ok
    /\ thumbnail_paths[j] = <<>>

C11_ZeroThumbnailsSucceeds ==
    \A j \in Slots :
        (Finished(j) /\ ZeroThumbnails(j) /\ FailedStep(j) # "upload") =>
            /\ Cardinality(CallsOf(j, "analyze")) = 1
            /\ Cardinality(CallsOf(j, "upload")) = 1
            /\ Uploaded(j) = {S3TranscodedKey(job_id[j], job[j].key)}
            /\ pc[j] = "returned"
            /\ IsSuccessShape(response[j])
            /\ response[j].thumbnail_keys = <<>>

(***************************************************************************)
(* C12.  The list generate_thumbnails returns is in capture order for      *)
(* every number of thumbnails: its i-th element is the file thumb_<i>.jpg  *)
(* the tool wrote for frame i.                                             *)
(***************************************************************************)
C12_ThumbnailsInCaptureOrder ==
    \A j \in Slots :
        \A i \in 1..Len(thumbnail_paths[j]) :
            thumbnail_paths[j][i] = PathJoin(LocalOutputDir(job_id[j]), ThumbFilename(i))

(***************************************************************************)
(* C13.  In every success response thumbnail_keys has the length of the    *)
(* list generate_thumbnails returned, and its i-th key is                  *)
(* processed/<job_id>/thumbnails/<file name of the i-th thumbnail>.        *)
(***************************************************************************)
C13_ThumbnailKeysFollowThumbnails ==
    \A j \in Slots :
        (pc[j] = "returned" /\ IsSuccessShape(response[j])) =>
            /\ Len(response[j].thumbnail_keys) = Len(thumbnail_paths[j])
            /\ \A i \in 1..Len(thumbnail_paths[j]) :
                   response[j].thumbnail_keys[i] =
                       <<"processed/", job_id[j], "/", "thumbnails/">>
                           \o Basename(thumbnail_paths[j][i])

\* a success response for a video with two thumbnails
C13_Witness ==
    \E j \in Slots :
        /\ pc[j] = "returned"
        /\ IsSuccessShape(response[j])
        /\ Len(thumbnail_paths[j]) = 2

(***************************************************************************)
(* C16.  The calls of one job are one linear sequence: the scratch         *)
(* directories, the download, the transcode of the downloaded file, the    *)
(* thumbnailing of the transcoded file, the analysis, the upload of the    *)
(* video, the uploads of the thumbnails in list order, the cleanup.  A     *)
(* step starts only after the steps before it succeeded; once the scratch  *)
(* directories are created the cleanup is run after the last step          *)
(* attempted and before handler is left.                                   *)
(***************************************************************************)
Stage(op) ==
    CASE op = "makedirs" -> 1
      [] op = "download" -> 2
      [] op = "transcode" -> 3
      [] op = "thumbnails" -> 4
      [] op = "analyze" -> 5
      [] op = "upload" -> 6
      [] OTHER -> 7

C16_LinearSequence ==
    \A j \in Slots :
        LET c == calls[j]
            ups == CallsOf(j, "upload")
        IN  /\ \A i \in 1..Len(c), k \in 1..Len(c) :
                   i < k =>
                       /\ Stage(c[i].op) <= Stage(c[k].op)
                       /\ Stage(c[k].op) \in 2..5 => Stage(c[i].op) < Stage(c[k].op)
                       /\ Stage(c[k].op) <= 6 => c[i].ok
            /\ \A k \in 1..Len(c) :
                   Stage(c[k].op) \in 2..6 =>
                       \A st \in 1..(Stage(c[k].op) - 1) :
                           \E i \in 1..(k - 1) : Stage(c[i].op) = st
            /\ \A k \in CallsOf(j, "transcode") :
                   c[k].arg = LocalInputPath(job_id[j], job[j].key)
            /\ \A k \in CallsOf(j, "thumbnails") :
                   c[k].arg = LocalTranscodedPath(job_id[j], job[j].key)
            /\ \A k \in ups :
                   LET m == Cardinality({ u \in ups : u < k })
                   IN  c[k].arg =
                           IF m = 0 THEN S3TranscodedKey(job_id[j], job[j].key)
                           ELSE S3ThumbKey(job_id[j], thumbnail_paths[j][m])
            /\ (Finished(j) /\ ScratchCreated(j)) =>
                   /\ c[Len(c)].op = "rmdir"
                   /\ \E i \in 1..Len(c) : Stage(c[i].op) = 2

\* a job that went through every step, two thumbnail uploads and the cleanup
C16_Witness ==
    \E j \in Slots :
        /\ pc[j] = "returned"
        /\ Cardinality(CallsOf(j, "upload")) = 3
        /\ Cardinality(CallsOf(j, "rmdir")) = 2

(***************************************************************************)
(* C17.  Nothing is retried: in one invocation the download, the           *)
(* transcode tool and the thumbnail tool are each run at most once, each   *)
(* key is uploaded at most once, and the first failure ends the job body.  *)
(***************************************************************************)
C17_NothingRetried ==
    \A j \in Slots :
        /\ Cardinality(CallsOf(j, "download")) <= 1
        /\ Cardinality(CallsOf(j, "transcode")) <= 1
        /\ Cardinality(CallsOf(j, "thumbnails")) <= 1
        /\ \A a \in CallsOf(j, "upload"), b \in CallsOf(j, "upload") :
               a # b => calls[j][a].arg # calls[j][b].arg
        /\ \A i \in 1..Len(calls[j]) :
               (~calls[j][i].ok /\ Stage(calls[j][i].op) \in 2..6) =>
                   \A k \in (i + 1)..Len(calls[j]) : Stage(calls[j][k].op) = 7

\* a job that ended after its one download attempt failed
C17_Witness ==
    \E j \in Slots :
        /\ pc[j] = "returned"
        /\ FailedStep(j) = "download"
        /\ Cardinality(CallsOf(j, "download")) = 1

(***************************************************************************)
(* C19.  In every success response the keys listed (transcoded_video_key   *)
(* and thumbnail_keys) are exactly the keys this invocation uploaded       *)
(* successfully, and they are pairwise distinct.                           *)
(***************************************************************************)
C19_ListedKeysAreUploadedKeys ==
    \A j \in Slots :
        (pc[j] = "returned" /\ IsSuccessShape(response[j])) =>
            /\ ReportedKeys(response[j]) = Uploaded(j)
            /\ ReportedKeys(response[j]) \subseteq bucket
            /\ Cardinality(ReportedKeys(response[j]))
                   = 1 + Len(response[j].thumbnail_keys)

\* a success response listing three keys
C19_Witness ==
    \E j \in Slots :
        /\ pc[j] = "returned"
        /\ IsSuccessShape(response[j])
        /\ Cardinality(Uploaded(j)) = 3

(***************************************************************************)
(* C14.  Two invocations running at the same time never touch each         *)
(* other's namespace: every path a job passes to the filesystem or to a    *)
(* tool lies in its own two scratch directories, its thumbnail list holds  *)
(* only files of its own output directory, every key it uploads lies       *)
(* under its own processed/<job_id>/ prefix, none of these lies in the     *)
(* other job's namespace, and a step of one job leaves the directories,    *)
(* the files and the stored keys of the other job as they were.            *)
(***************************************************************************)
\* p is a scratch directory of the job with identifier id, or lies inside one
InScratch(id, p) ==
    \/ p \in {LocalInputDir(id), LocalOutputDir(id)}
    \/ InDir(p, LocalInputDir(id))
    \/ InDir(p, LocalOutputDir(id))

\* k is a key under processed/<id>/
UnderPrefix(id, k) ==
    /\ Len(k) > Len(S3OutputPrefix(id))
    /\ SubSeq(k, 1, Len(S3OutputPrefix(id))) = S3OutputPrefix(id)
    /\ k[Len(S3OutputPrefix(id)) + 1] = "/"

\* what belongs to the job with identifier id, out of the directories ds, the
\* files fs and the keys ks
Namespace(id, ds, fs, ks) ==
    [dirs |-> { d \in ds : InScratch(id, d) },
     files |-> { f \in fs : InScratch(id, f) },
     keys |-> { k \in ks : UnderPrefix(id, k) }]

\* the paths and keys invocation j handed to the filesystem, a tool or the storage
LocalArgs(j) ==
    { calls[j][i].arg : i \in { c \in 1..Len(calls[j]) :
                                  calls[j][c].op \in {"makedirs", "transcode", "thumbnails",
                                                      "remove", "rmdir"} } }
    \cup { thumbnail_paths[j][i] : i \in 1..Len(thumbnail_paths[j]) }
UploadArgs(j) == { calls[j][i].arg : i \in CallsOf(j, "upload") }

StaysInOwnNamespace ==
    \A j \in Slots :
        /\ \A p \in LocalArgs(j) : InScratch(job_id[j], p)
        /\ \A k \in UploadArgs(j) : UnderPrefix(job_id[j], k)
        /\ \A o \in Slots \ {j} :
               /\ job_id[j] # "" => job_id[o] # job_id[j]
               /\ \A p \in LocalArgs(j) : ~InScratch(job_id[o], p)
               /\ \A k \in UploadArgs(j) : ~UnderPrefix(job_id[o], k)

\* invocation j takes no part in the step
Still(j) == pc'[j] = pc[j] /\ calls'[j] = calls[j]

LeavesOthersAlone ==
    \A j \in Slots :
        Still(j) => Namespace(job_id[j], dirs', files', bucket')
                        = Namespace(job_id[j], dirs, files, bucket)

C14_ConcurrentJobsIsolated == []StaysInOwnNamespace /\ [][LeavesOthersAlone]_vars

\* one job has cleaned up and returned while the other still has its
\* thumbnails on disk and its video in the bucket
C14_Witness ==
    \E j \in Slots, o \in Slots :
        /\ j # o
        /\ pc[j] = "returned"
        /\ Uploaded(j) # {}
        /\ CallsOf(j, "rmdir") # {}
        /\ pc[o] = "upload_thumbs"
        /\ Len(thumbnail_paths[o]) = 2
        /\ Uploaded(o) # {}

(***************************************************************************)
(* C15.  When download, transcode, thumbnailing and every upload succeed,  *)
(* handler returns the success record: status "success",                   *)
(* transcoded_video_key = processed/<job_id>/<stem>_processed.mp4 with     *)
(* <stem> the basename of source_video_key without its extension,          *)
(* ai_analysis the fixed placeholder, every key under processed/<job_id>/. *)
(***************************************************************************)
\* every step of the job body was run and succeeded
AllStepsSucceeded(j) ==
    /\ \A op \in {"download", "transcode", "thumbnails"} :
           \E i \in CallsOf(j, op) : calls[j][i].ok
    /\ Cardinality(CallsOf(j, "upload")) = 1 + Len(thumbnail_paths[j])
    /\ \A i \in CallsOf(j, "upload") : calls[j][i].ok

\* stem is the name b without its extension: what is cut off is empty, or a
\* last dot and what follows it, and a name made of leading dots and no other
\* dot has no extension
IsStemOf(stem, b) ==
    \E n \in 0..Len(b) :
        LET ext == SubSeq(b, n + 1, Len(b))
        IN  /\ stem = SubSeq(b, 1, n)
            /\ \/ /\ ext = <<>>
                  /\ \A i \in Positions(b, ".") : \A k \in 1..(i - 1) : b[k] = "."
               \/ /\ ext # <<>>
                  /\ ext[1] = "."
                  /\ Positions(Tail(ext), ".") = {}
                  /\ \E k \in 1..n : stem[k] # "."

C15_SuccessResponse ==
    \A j \in Slots :
        (Finished(j) /\ AllStepsSucceeded(j)) =>
            /\ pc[j] = "returned"
            /\ IsSuccessShape(response[j])
            /\ \E stem \in { SubSeq(Basename(job[j].key), 1, n) :
                              n \in 0..Len(Basename(job[j].key)) } :
                   /\ IsStemOf(stem, Basename(job[j].key))
                   /\ response[j].transcoded_video_key =
                          <<"processed/", job_id[j], "/">> \o stem \o <<"_processed.mp4">>
            /\ response[j].ai_analysis = AiPlaceholder
            /\ \A k \in ReportedKeys(response[j]) : UnderPrefix(job_id[j], k)

(***************************************************************************)
(* C18.  If a scratch directory, or a file inside one, is already gone     *)
(* when the cleanup runs, the cleanup raises no error, removes what is     *)
(* left of the scratch directories, and handler returns the response the   *)
(* job body computed.                                                      *)
(***************************************************************************)
C18_CleanupToleratesGone ==
    \A j \in Slots :
        (Finished(j) /\ pending[j] # None /\ CallsOf(j, "gone") # {}) =>
            /\ raised[j] = None
            /\ pc[j] = "returned"
            /\ response[j] = pending[j]
            /\ ~ScratchLeft(j)

====
